---- MODULE Spec2Model ----
(***************************************************************************)
(* Bootstrap of the Medzy backend: the three entry points                  *)
(*   "server1"  src/server.js lines   1-168 (first root server variant)    *)
(*   "server2"  src/server.js lines 169-342 (second root server variant)   *)
(*   "api"      src/api/index.js           (minimal serverless function)   *)
(* Modelled: the middleware stack each entry point registers and Express's *)
(* dispatch over it, the CORS headers, the upload middleware, and the      *)
(* process lifecycle (listen, bind error, SIGINT/SIGTERM, drain, exit).    *)
(***************************************************************************)
EXTENDS Integers, Sequences, FiniteSets, TLC

VARIABLES
    variant,      \* which entry point this process runs
    NODE_ENV,     \* process.env.NODE_ENV ("unset" when undefined)
    vercelEnv,    \* TRUE when process.env.VERCEL or process.env.VERCEL_ENV is set
    envPORT,      \* process.env.PORT as a number, 0 when undefined
    otherInstance,\* port on which another instance is listening, 0 when none
    pc,           \* "load" (module not evaluated), "running", "exited"
    servicesInit, \* email/notification service modules were imported
    exported,     \* the module's default export (app) is available
    server,       \* "none","binding","listening","closing","closed","failed"
    listenCalls,  \* number of app.listen calls made
    listenPort,   \* port handed to app.listen, 0 when never called
    handlers,     \* the event handlers registered: subset of Events
    closeCbs,     \* callbacks waiting for the listener's 'close' event
    signals,      \* the signals handled so far, in order
    conns,        \* connections: id -> "closed" | "idle" | "busy"
    inflight,     \* history: requests that were in flight at the first signal
    exitCode,     \* NoExit until the process exits
    log,          \* console output, as a sequence of tags
    exchange,     \* the HTTP exchange handled by app: the request and, once
                  \* answered, the response
    upload        \* the file handed to the upload middleware and its outcome

vars == <<variant, NODE_ENV, vercelEnv, envPORT, otherInstance, pc, servicesInit,
          exported, server, listenCalls, listenPort, handlers, closeCbs, signals,
          conns, inflight, exitCode, log, exchange, upload>>

envVars == <<variant, NODE_ENV, vercelEnv, envPORT>>

(***************************************************************************)
(* Bounds of the model                                                     *)
(***************************************************************************)
MaxConns == 2      \* connection ids 1..MaxConns
MaxSignals == 2    \* signals delivered to one process
MaxNameLen == 3    \* length of an uploaded file's original name
MaxClock == 1      \* Date.now() ranges over 0..MaxClock

NoExit == -1
DefaultPort == 5000
MaxPort == 65535
fileSize == 10 * 1024 * 1024
RandomScale == 1000000000

Variants == {"server1", "server2", "api"}
NodeEnvs == {"unset", "production", "development", "test"}
Events == {"error", "SIGINT", "SIGTERM"}
Signals == {"SIGINT", "SIGTERM"}
ConnIds == 1..MaxConns

(***************************************************************************)
(* HTTP surface: paths are sequences of segments                           *)
(***************************************************************************)
RootPath == <<>>
HealthPath == <<"api", "health">>

RoutePrefixes ==
    { <<"api", "auth">>, <<"api", "users">>, <<"api", "profile">>,
      <<"api", "support">>, <<"api", "medicines">>, <<"api", "cart">>,
      <<"api", "medicine-requests">>, <<"api", "orders">>, <<"api", "donations">>,
      <<"api", "daily-updates">>, <<"api", "reviews">>, <<"api", "service-reviews">>,
      <<"api", "payments">>, <<"api", "disputes">>, <<"api", "smart-doctor">>,
      <<"api", "medicine-reminders">>, <<"api", "medical-profile">>,
      <<"api", "customer-points">>, <<"api", "revenue-adjustments">> }

\* The order of the app.use(prefix, router) calls; the prefixes are pairwise
\* unrelated, so the order among them does not change which one matches.
RouterLayers ==
    LET Mk(p) == [kind |-> "use", path |-> p, arity |-> 3, handler |-> "router"]
    IN  << Mk(<<"api", "auth">>), Mk(<<"api", "users">>), Mk(<<"api", "profile">>),
           Mk(<<"api", "support">>), Mk(<<"api", "medicines">>), Mk(<<"api", "cart">>),
           Mk(<<"api", "medicine-requests">>), Mk(<<"api", "orders">>),
           Mk(<<"api", "donations">>), Mk(<<"api", "daily-updates">>),
           Mk(<<"api", "reviews">>), Mk(<<"api", "service-reviews">>),
           Mk(<<"api", "payments">>), Mk(<<"api", "disputes">>),
           Mk(<<"api", "smart-doctor">>), Mk(<<"api", "medicine-reminders">>),
           Mk(<<"api", "medical-profile">>), Mk(<<"api", "customer-points">>),
           Mk(<<"api", "revenue-adjustments">>) >>

Use(h) == [kind |-> "use", path |-> <<>>, arity |-> 3, handler |-> h]
Get(p, h) == [kind |-> "get", path |-> p, arity |-> 3, handler |-> h]
ErrUse(h) == [kind |-> "use", path |-> <<>>, arity |-> 4, handler |-> h]

\* The handler stack each entry point registers, in registration order.
Stack1 ==
    <<Use("cors"), Use("json"), Use("urlencoded")>> \o RouterLayers
        \o <<Get(HealthPath, "health1")>>

Stack2 ==
    <<Use("cors"), Use("json"), Use("urlencoded")>> \o RouterLayers
        \o <<Get(RootPath, "root"), Get(HealthPath, "health"),
             ErrUse("errorMW2"), Use("notFound")>>

Stack3 ==
    <<Use("cors"), Use("json"), Get(RootPath, "root"), Get(HealthPath, "health"),
      ErrUse("errorMW3")>>

Stack(v) == CASE v = "server1" -> Stack1
              [] v = "server2" -> Stack2
              [] OTHER -> Stack3

(***************************************************************************)
(* CORS                                                                    *)
(***************************************************************************)
ProdOrigin == "https://medzy-app-frontend.vercel.app"
DevOrigins == {"http://localhost:5173", "http://localhost:3000"}
NoOrigin == "none"
Origins == {NoOrigin, ProdOrigin, "http://localhost:5173", "http://localhost:3000",
            "https://evil.example"}

\* The options handed to cors(): origin is "*" (the library default) or a set.
CorsOptions(v, env) ==
    CASE v = "server1" -> [origin |-> {"*"}, credentials |-> FALSE]
      [] v = "server2" -> [origin |-> IF env = "production" THEN {ProdOrigin}
                                                          ELSE DevOrigins,
                           credentials |-> TRUE]
      [] OTHER -> [origin |-> {ProdOrigin, "http://localhost:5173"},
                   credentials |-> TRUE]

\* Access-Control-Allow-Origin as the cors middleware sets it ("none": not set).
AllowOrigin(opts, origin) ==
    IF opts.origin = {"*"} THEN "*"
    ELSE IF origin # NoOrigin /\ origin \in opts.origin THEN origin
    ELSE "none"

(***************************************************************************)
(* Dispatch                                                                *)
(***************************************************************************)
Absent == "absent"
NoErr == [message |-> "none", status |-> 0]
ErrMessages == {"boom"}
Methods == {"GET", "POST", "OPTIONS"}
ReqPaths == {RootPath, HealthPath, <<"api", "does-not-exist">>,
             <<"api", "auth", "login">>, <<"api", "orders">>, <<"api", "healthz">>}
Requests == [method : Methods, path : ReqPaths, origin : Origins, bodyOk : BOOLEAN]
\* What the matched route module does with a request: the modules are external.
RouterOutcomes == {[kind |-> "respond", msg |-> "none"], [kind |-> "next", msg |-> "none"]}
                    \cup {[kind |-> "error", msg |-> m] : m \in ErrMessages}

IsPrefix(p, q) == Len(p) <= Len(q) /\ SubSeq(q, 1, Len(p)) = p

\* Express: app.use(path) matches on a segment prefix, app.get(path) on the
\* exact path of a GET request.
Match(layer, req) ==
    IF layer.kind = "use" THEN IsPrefix(layer.path, req.path)
    ELSE req.method = "GET" /\ req.path = layer.path

Resp(status, by, bstatus, bmsg, bpath, berr) ==
    [status |-> status, by |-> by, bodyStatus |-> bstatus, bodyMessage |-> bmsg,
     bodyPath |-> bpath, bodyError |-> berr, err |-> NoErr]

\* The environment Express reports: app.get('env').
AppEnv(env) == IF env = "unset" THEN "development" ELSE env

\* No layer answered: Express's default final handler.
FinalHandler(req, err, env) ==
    IF err = NoErr
    THEN Resp(404, "final", Absent, "Cannot " \o req.method, req.path, Absent)
    ELSE LET st == IF err.status >= 400 /\ err.status <= 599 THEN err.status ELSE 500
         IN  [Resp(st, "final", Absent,
                   IF AppEnv(env) = "production" THEN "status text" ELSE err.message,
                   Absent, Absent) EXCEPT !.err = err]

\* Variant of ErrorMW2 that hides the message in production only.
ErrorMW2OutsideProduction(err, env) ==
    [Resp(500, "errorMW2", Absent, "Something went wrong!", Absent,
          IF env # "production" THEN err.message ELSE "Internal server error")
        EXCEPT !.err = err]

ErrorMW2(err, env) ==
    [Resp(500, "errorMW2", Absent, "Something went wrong!", Absent,
          IF env = "development" THEN err.message ELSE "Internal server error")
        EXCEPT !.err = err]

ErrorMW3(err, env) ==
    [Resp(500, "errorMW3", Absent, "Internal server error", Absent, Absent)
        EXCEPT !.err = err]

NotFound(req) == Resp(404, "notFound", Absent, "Route not found", req.path, Absent)

Health1 == Resp(200, "health1", Absent, "Medsy Backend Server is running!", Absent, Absent)
Health == Resp(200, "health", "healthy", "Medzy Backend Server is running!", Absent, Absent)
Root == Resp(200, "root", "running", "Medzy Healthcare", Absent, Absent)

RECURSIVE Handle(_, _, _, _, _, _)
Handle(stack, i, req, err, out, env) ==
    IF i > Len(stack) THEN FinalHandler(req, err, env)
    ELSE LET l == stack[i]
             next == Handle(stack, i + 1, req, err, out, env)
         IN  IF ~Match(l, req) THEN next
             ELSE IF err # NoErr
                  THEN IF l.arity # 4 THEN next
                       ELSE IF l.handler = "errorMW2" THEN ErrorMW2(err, env)
                            ELSE ErrorMW3(err, env)
             ELSE IF l.arity = 4 THEN next
             ELSE CASE l.handler = "cors" ->
                         IF req.method = "OPTIONS"
                         THEN Resp(204, "cors", Absent, Absent, Absent, Absent)
                         ELSE next
                    [] l.handler = "json" ->
                         IF req.bodyOk THEN next
                         ELSE Handle(stack, i + 1, req,
                                     [message |-> "Unexpected token", status |-> 400],
                                     out, env)
                    [] l.handler = "urlencoded" -> next
                    [] l.handler = "router" ->
                         CASE out.kind = "respond" ->
                                Resp(200, "router", Absent, Absent, Absent, Absent)
                           [] out.kind = "next" -> next
                           [] OTHER ->
                                Handle(stack, i + 1, req,
                                       [message |-> out.msg, status |-> 0], out, env)
                    [] l.handler = "root" -> Root
                    [] l.handler = "health" -> Health
                    [] l.handler = "health1" -> Health1
                    [] OTHER -> NotFound(req)

\* The whole of app(req, res): the answer with the CORS headers on it and the
\* request it answers; resp.err is the error no route handled, NoErr when none.
Dispatch(v, env, req, out) ==
    [resp |-> Handle(Stack(v), 1, req, NoErr, out, env),
     acao |-> AllowOrigin(CorsOptions(v, env), req.origin),
     acac |-> CorsOptions(v, env).credentials,
     req |-> req, out |-> out, done |-> TRUE]

\* A request received and not yet answered.
Pending(req, out) ==
    [resp |-> Resp(0, "none", Absent, Absent, Absent, Absent),
     acao |-> "none", acac |-> FALSE, req |-> req, out |-> out, done |-> FALSE]

NoResponse == [resp |-> Resp(0, "none", Absent, Absent, Absent, Absent),
               acao |-> "none", acac |-> FALSE,
               req |-> [method |-> "GET", path |-> RootPath, origin |-> NoOrigin,
                        bodyOk |-> TRUE],
               out |-> [kind |-> "next", msg |-> "none"], done |-> TRUE]
(***************************************************************************)
(* Upload middleware (first server variant)                                *)
(***************************************************************************)
Slash == "/"
Dot == "."
ImagePrefix == <<"i", "m", "a", "g", "e", "/">>
NameChars == {"a", "b", Dot}
Digits == <<"0", "1", "2", "3", "4", "5", "6", "7", "8", "9">>

RECURSIVE SeqsUpTo(_, _)
SeqsUpTo(S, n) ==
    IF n = 0 THEN {<<>>}
    ELSE LET shorter == SeqsUpTo(S, n - 1)
         IN  shorter \cup {Append(s, x) : s \in shorter, x \in S}

OriginalNames == SeqsUpTo(NameChars, MaxNameLen) \ {<<>>}
MimeTypes == { ImagePrefix \o <<"p", "n", "g">>,
               ImagePrefix,
               <<"t", "e", "x", "t", "/", "p">>,
               <<"x">> \o ImagePrefix \o <<"p">>,
               <<"i", "m", "a", "g">> }
FileSizes == {0, fileSize - 1, fileSize, fileSize + 1}
RandomValues == {0, 7, RandomScale}
Files == [fieldname : {<<"f">>}, originalname : OriginalNames,
          mimetype : MimeTypes, size : FileSizes]

\* String.prototype.startsWith
StartsWith(s, p) == Len(s) >= Len(p) /\ SubSeq(s, 1, Len(p)) = p

\* Number-to-string conversion of a non-negative integer (decimal digits).
RECURSIVE ToDec(_)
ToDec(n) == IF n < 10 THEN <<Digits[n + 1]>>
            ELSE Append(ToDec(n \div 10), Digits[(n % 10) + 1])

\* path.extname (posix): one backwards scan over the characters. The scan
\* state is the record st; positions are 1-based, 0 stands for "not set".
RECURSIVE ExtScan(_, _, _)
ExtScan(path, i, st) ==
    IF i < 1 THEN st
    ELSE IF path[i] = Slash
         THEN IF ~st.matchedSlash THEN [st EXCEPT !.startPart = i + 1]
              ELSE ExtScan(path, i - 1, st)
    ELSE LET s1 == IF st.end = 0
                   THEN [st EXCEPT !.matchedSlash = FALSE, !.end = i]
                   ELSE st
             s2 == IF path[i] = Dot
                   THEN IF s1.startDot = 0 THEN [s1 EXCEPT !.startDot = i]
                        ELSE IF s1.preDotState # 1 THEN [s1 EXCEPT !.preDotState = 1]
                        ELSE s1
                   ELSE IF s1.startDot # 0 THEN [s1 EXCEPT !.preDotState = -1]
                   ELSE s1
         IN  ExtScan(path, i - 1, s2)

extname(path) ==
    LET st == ExtScan(path, Len(path),
                      [startDot |-> 0, startPart |-> 1, end |-> 0,
                       matchedSlash |-> TRUE, preDotState |-> 0])
    IN  IF \/ st.startDot = 0
           \/ st.end = 0
           \/ st.preDotState = 0
           \/ (st.preDotState = 1 /\ st.startDot = st.end
                  /\ st.startDot = st.startPart + 1)
        THEN <<>>
        ELSE SubSeq(path, st.startDot, st.end)

\* Variant of fileFilter that looks for 'image/' anywhere in the content type.
fileFilterIncludes(file) ==
    \E k \in 0..Len(file.mimetype) :
        StartsWith(SubSeq(file.mimetype, k + 1, Len(file.mimetype)), ImagePrefix)

\* multer fileFilter: TRUE accepts the file, FALSE passes an Error.
fileFilter(file) == StartsWith(file.mimetype, ImagePrefix)

\* diskStorage filename callback
filename(file, now, rnd) ==
    file.fieldname \o <<"-">> \o ToDec(now) \o <<"-">> \o ToDec(rnd)
        \o extname(file.originalname)

NoUpload == [file |-> [fieldname |-> <<>>, originalname |-> <<>>, mimetype |-> <<>>,
                       size |-> 0],
             now |-> 0, rnd |-> 0, accepted |-> FALSE, error |-> "none",
             destination |-> "none", filename |-> <<>>, done |-> TRUE]

\* A file received and not yet handled.
PendingUpload(file, now, rnd) ==
    [NoUpload EXCEPT !.file = file, !.now = now, !.rnd = rnd, !.done = FALSE]

\* upload.single(...) applied to one file: filter, then storage under the
\* size limit.
UploadResult(file, now, rnd) ==
    LET base == [NoUpload EXCEPT !.file = file, !.now = now, !.rnd = rnd]
    IN  IF ~fileFilter(file)
        THEN [base EXCEPT !.error = "Only image files are allowed!"]
        ELSE IF file.size > fileSize
        THEN [base EXCEPT !.error = "LIMIT_FILE_SIZE"]
        ELSE [base EXCEPT !.accepted = TRUE, !.destination = "uploads",
                          !.filename = filename(file, now, rnd)]
(***************************************************************************)
(* Process lifecycle                                                       *)
(***************************************************************************)
PORT == IF envPORT = 0 THEN DefaultPort ELSE envPORT

\* The guard around the startServer() call at the end of the module.
StartsServer(v, env, vercel) ==
    CASE v = "server1" -> env # "production"
      [] v = "server2" -> ~vercel
      [] OTHER -> FALSE

\* Whether the module imports the email and notification services.
InitsServices(v, vercel) ==
    CASE v = "server1" -> TRUE
      [] v = "server2" -> ~vercel
      [] OTHER -> FALSE

SigNo(sig) == IF sig = "SIGINT" THEN 2 ELSE 15

\* process.exit(code)
Exit(code) == pc' = "exited" /\ exitCode' = code

\* startServer(): app.listen throws on a port out of range, which the catch
\* turns into exit(1); otherwise the bind is under way and the three handlers
\* are registered.
StartServer ==
    /\ listenCalls' = listenCalls + 1
    /\ listenPort' = PORT
    /\ IF PORT > MaxPort
       THEN /\ log' = Append(log, "startfail")
            /\ Exit(1)
            /\ UNCHANGED <<server, handlers>>
       ELSE /\ server' = "binding"
            /\ handlers' = Events
            /\ pc' = "running"
            /\ UNCHANGED <<log, exitCode>>

\* Evaluation of the entry point's module, top to bottom.
LoadModule ==
    /\ pc = "load"
    /\ servicesInit' = InitsServices(variant, vercelEnv)
    /\ IF StartsServer(variant, NODE_ENV, vercelEnv)
       THEN StartServer
       ELSE /\ pc' = "running"
            /\ UNCHANGED <<server, listenCalls, listenPort, handlers, log, exitCode>>
    /\ exported' = (pc' = "running")
    /\ UNCHANGED <<envVars, otherInstance, closeCbs, signals, conns, inflight,
                   exchange, upload>>

\* The listen callback: the bind succeeded.
BindSucceeds ==
    /\ pc = "running" /\ server = "binding"
    /\ otherInstance # listenPort
    /\ server' = "listening"
    /\ log' = Append(log, "running")
    /\ UNCHANGED <<envVars, otherInstance, pc, servicesInit, exported, listenCalls,
                   listenPort, handlers, closeCbs, signals, conns, inflight, exitCode,
                   exchange, upload>>

\* Variant of OnError that logs and exits with status 0.
OnErrorExitsZero(code) ==
    /\ log' = Append(log, IF code = "EADDRINUSE" THEN "portconflict" ELSE "servererror")
    /\ Exit(0)

\* server.on('error', ...)
OnError(code) ==
    /\ log' = Append(log, IF code = "EADDRINUSE" THEN "portconflict" ELSE "servererror")
    /\ Exit(1)

\* Variant of BindFails that binds the next port when the port is in use.
BindFailsTriesNextPort(code) ==
    /\ pc = "running" /\ server = "binding" /\ "error" \in handlers
    /\ code = (IF otherInstance = listenPort THEN "EADDRINUSE" ELSE "EACCES")
    /\ IF code = "EADDRINUSE"
       THEN /\ log' = Append(log, "portconflict")
            /\ listenPort' = listenPort + 1
            /\ listenCalls' = listenCalls + 1
            /\ UNCHANGED <<pc, exitCode, server>>
       ELSE /\ OnError(code)
            /\ server' = "failed"
            /\ UNCHANGED <<listenPort, listenCalls>>
    /\ UNCHANGED <<envVars, otherInstance, servicesInit, exported, handlers, closeCbs,
                   signals, conns, inflight, exchange, upload>>

\* The bind failed: EADDRINUSE when another instance holds the port, another
\* code (EACCES) otherwise.
BindFails(code) ==
    /\ pc = "running" /\ server = "binding" /\ "error" \in handlers
    /\ code = (IF otherInstance = listenPort THEN "EADDRINUSE" ELSE "EACCES")
    /\ OnError(code)
    /\ server' = "failed"
    /\ UNCHANGED <<envVars, otherInstance, servicesInit, exported, listenCalls,
                   listenPort, handlers, closeCbs, signals, conns, inflight,
                   exchange, upload>>

\* An 'error' event of the listening server (a failed accept).
AcceptError ==
    /\ pc = "running" /\ server = "listening" /\ "error" \in handlers
    /\ OnError("EMFILE")
    /\ UNCHANGED <<envVars, otherInstance, servicesInit, exported, server, listenCalls,
                   listenPort, handlers, closeCbs, signals, conns, inflight,
                   exchange, upload>>

\* A client connects to the listening socket.
Accept(c) ==
    /\ pc = "running" /\ server = "listening"
    /\ conns[c] = "closed"
    /\ conns' = [conns EXCEPT ![c] = "idle"]
    /\ UNCHANGED <<envVars, otherInstance, pc, servicesInit, exported, server,
                   listenCalls, listenPort, handlers, closeCbs, signals, inflight,
                   exitCode, log, exchange, upload>>

\* A request arrives on an open connection.
RequestArrives(c) ==
    /\ pc = "running"
    /\ conns[c] = "idle"
    /\ conns' = [conns EXCEPT ![c] = "busy"]
    /\ UNCHANGED <<envVars, otherInstance, pc, servicesInit, exported, server,
                   listenCalls, listenPort, handlers, closeCbs, signals, inflight,
                   exitCode, log, exchange, upload>>

\* The response to the request on connection c is finished.
RequestCompletes(c) ==
    /\ pc = "running"
    /\ conns[c] = "busy"
    /\ conns' = [conns EXCEPT ![c] = "idle"]
    /\ inflight' = inflight \ {c}
    /\ UNCHANGED <<envVars, otherInstance, pc, servicesInit, exported, server,
                   listenCalls, listenPort, handlers, closeCbs, signals, exitCode, log,
                   exchange, upload>>

\* A connection ends (the client closes it, or aborts the request on it).
ConnClose(c) ==
    /\ pc = "running"
    /\ conns[c] # "closed"
    /\ conns' = [conns EXCEPT ![c] = "closed"]
    /\ inflight' = inflight \ {c}
    /\ UNCHANGED <<envVars, otherInstance, pc, servicesInit, exported, server,
                   listenCalls, listenPort, handlers, closeCbs, signals, exitCode, log,
                   exchange, upload>>

\* Variant of ServerClose that closes the handle and drops the callback.
ServerCloseDropsCallback ==
    /\ server' = IF server = "listening" THEN "closing" ELSE server
    /\ closeCbs' = closeCbs

\* server.close(cb): the listening handle is closed at once, cb waits for the
\* 'close' event; on a server that is already closing only cb is added.
ServerClose ==
    /\ server' = IF server = "listening" THEN "closing" ELSE server
    /\ closeCbs' = closeCbs + 1

\* Variant of OnSignal that exits at once instead of waiting for 'close'.
OnSignalExitsAtOnce(sig) ==
    /\ log' = Append(log, sig)
    /\ Exit(0)
    /\ UNCHANGED <<server, closeCbs>>

\* process.on('SIGINT' | 'SIGTERM', ...)
OnSignal(sig) ==
    /\ log' = Append(log, sig)
    /\ ServerClose
    /\ UNCHANGED <<pc, exitCode>>

\* A signal is delivered. Without a registered handler the default
\* disposition ends the process.
Signal(sig) ==
    /\ pc = "running" /\ server # "binding"
    /\ Len(signals) < MaxSignals
    /\ signals' = Append(signals, sig)
    /\ inflight' = IF signals = <<>> THEN {c \in ConnIds : conns[c] = "busy"}
                                     ELSE inflight
    /\ IF sig \in handlers
       THEN OnSignal(sig)
       ELSE /\ Exit(128 + SigNo(sig))
            /\ UNCHANGED <<server, closeCbs, log>>
    /\ UNCHANGED <<envVars, otherInstance, servicesInit, exported, listenCalls,
                   listenPort, handlers, conns, exchange, upload>>

\* The callback handed to server.close
OnClosed ==
    /\ log' = Append(log, "terminated")
    /\ Exit(0)

\* The listener's 'close' event: the handle is closed and no connection is left.
EmitClose ==
    /\ pc = "running" /\ server = "closing"
    /\ \A c \in ConnIds : conns[c] = "closed"
    /\ server' = "closed"
    /\ IF closeCbs > 0 THEN OnClosed ELSE UNCHANGED <<log, pc, exitCode>>
    /\ UNCHANGED <<envVars, otherInstance, servicesInit, exported, listenCalls,
                   listenPort, handlers, closeCbs, signals, conns, inflight,
                   exchange, upload>>

\* app(req, res): the request received is answered, by the process's own
\* listener or, where the process owns none, by the hosting platform calling
\* the export.
Invoke ==
    /\ pc = "running" /\ exported
    /\ server \in {"none", "listening", "closing"}
    /\ ~exchange.done
    /\ exchange' = Dispatch(variant, NODE_ENV, exchange.req, exchange.out)
    /\ UNCHANGED <<envVars, otherInstance, pc, servicesInit, exported, server,
                   listenCalls, listenPort, handlers, closeCbs, signals, conns,
                   inflight, exitCode, log, upload>>

\* app.locals.upload handles the uploaded file.
Upload ==
    /\ pc = "running" /\ variant = "server1"
    /\ ~upload.done
    /\ upload' = UploadResult(upload.file, upload.now, upload.rnd)
    /\ UNCHANGED <<envVars, otherInstance, pc, servicesInit, exported, server,
                   listenCalls, listenPort, handlers, closeCbs, signals, conns,
                   inflight, exitCode, log, exchange>>

\* The process before its module is evaluated.
Boot ==
    /\ pc = "load"
    /\ servicesInit = FALSE
    /\ exported = FALSE
    /\ server = "none"
    /\ listenCalls = 0
    /\ listenPort = 0
    /\ handlers = {}
    /\ closeCbs = 0
    /\ signals = <<>>
    /\ conns = [c \in ConnIds |-> "closed"]
    /\ inflight = {}
    /\ exitCode = NoExit
    /\ log = <<>>

Init ==
    /\ variant \in Variants
    /\ NODE_ENV \in NodeEnvs
    /\ vercelEnv \in BOOLEAN
    /\ envPORT \in {0, MaxPort + 1}
    /\ otherInstance \in {0, DefaultPort}
    /\ Boot
    /\ exchange = NoResponse
    /\ upload = NoUpload

\* The process and its listener.
Next ==
    \/ LoadModule
    \/ BindSucceeds
    \/ \E code \in {"EADDRINUSE", "EACCES"} : BindFails(code)
    \/ AcceptError
    \/ \E c \in ConnIds : Accept(c)
    \/ \E c \in ConnIds : RequestArrives(c)
    \/ \E c \in ConnIds : RequestCompletes(c)
    \/ \E c \in ConnIds : ConnClose(c)
    \/ \E sig \in Signals : Signal(sig)
    \/ EmitClose

Spec == Init /\ [][Next]_vars

\* Every in-flight request completes, every connection is closed in the end,
\* and a pending 'close' event is delivered.
Fairness ==
    /\ \A c \in ConnIds : WF_vars(RequestCompletes(c))
    /\ \A c \in ConnIds : WF_vars(ConnClose(c))
    /\ WF_vars(EmitClose)

FairSpec == Init /\ [][Next]_vars /\ Fairness

\* The application answering one request, in every environment, on the default
\* port with no other instance on it.
HttpInit ==
    /\ variant \in Variants
    /\ NODE_ENV \in NodeEnvs
    /\ vercelEnv \in BOOLEAN
    /\ envPORT = 0
    /\ otherInstance = 0
    /\ Boot
    /\ exchange \in {Pending(req, out) : req \in Requests, out \in RouterOutcomes}
    /\ upload = NoUpload

NextHttp ==
    \/ LoadModule
    \/ BindSucceeds
    \/ Invoke

HttpSpec == HttpInit /\ [][NextHttp]_vars

\* The upload middleware of the first server variant handling one file.
UploadInit ==
    /\ variant = "server1"
    /\ NODE_ENV \in NodeEnvs
    /\ vercelEnv = FALSE
    /\ envPORT = 0
    /\ otherInstance = 0
    /\ Boot
    /\ exchange = NoResponse
    /\ upload \in {PendingUpload(file, now, rnd) :
                        file \in Files, now \in 0..MaxClock, rnd \in RandomValues}

NextUpload ==
    \/ LoadModule
    \/ Upload

UploadSpec == UploadInit /\ [][NextUpload]_vars
(***************************************************************************)
(* Properties                                                              *)
(***************************************************************************)
Last(q) == q[Len(q)]
Logged(tag) == \E i \in 1..Len(log) : log[i] = tag
\* The process started its own listener and registered its handlers.
SelfListening == handlers # {}
Signalled == signals # <<>> /\ SelfListening

\* C1: in a self-listening instance, once SIGINT or SIGTERM has been received
\* no new connection is accepted, and the process does not exit while a
\* request that was in flight at the signal is unfinished; the exit that
\* follows has status 0 (also with a second signal while draining).
C1_DrainBeforeExit ==
    /\ [](Signalled /\ pc = "exited" =>
            /\ exitCode = 0
            /\ inflight = {}
            /\ \A c \in ConnIds : conns[c] # "busy")
    /\ [][Signalled => \A c \in ConnIds : conns[c] = "closed" => conns'[c] = "closed"]_vars

\* A second signal has arrived while a request in flight at the first one is
\* still unfinished, and the process is still running.
C1_Witness ==
    /\ SelfListening /\ Len(signals) = 2
    /\ server = "closing" /\ pc = "running"
    /\ inflight # {}

\* C2: a signal handled by a listening instance leads to the process
\* exiting with code 0, given that requests complete and connections close.
C2_SignalLeadsToExitZero == Signalled ~> (pc = "exited" /\ exitCode = 0)

C2_Witness ==
    /\ Signalled /\ pc = "exited" /\ exitCode = 0
    /\ Last(log) = "terminated"

\* C3: when the bind fails because another instance holds the port, the
\* process logs the port conflict and then exits with a non-zero status; it
\* made one listen call, on the configured port, never listened, and the
\* other instance still holds the port.
C3_PortConflictIsFatal ==
    /\ SelfListening /\ otherInstance = PORT =>
            /\ server \in {"binding", "failed"}
            /\ ~Logged("running")
            /\ listenCalls = 1 /\ listenPort = PORT
            /\ server = "failed" =>
                    /\ pc = "exited" /\ exitCode # 0 /\ exitCode # NoExit
                    /\ log = <<"portconflict">>
    /\ Logged("portconflict") =>
            /\ pc = "exited" /\ exitCode # 0
            /\ otherInstance = listenPort /\ otherInstance # 0

C3_Witness ==
    /\ Logged("portconflict") /\ pc = "exited" /\ exitCode = 1
    /\ otherInstance = DefaultPort

\* C4: with VERCEL or VERCEL_ENV set no entry point starts a listener,
\* registers a handler or initialises the background services, and the
\* application is exported; without them the root server variants start the
\* listener.
C4_ServerlessSkipsLifecycle ==
    pc # "load" =>
        /\ vercelEnv =>
                /\ listenCalls = 0 /\ server = "none"
                /\ handlers = {}
                /\ ~servicesInit
                /\ exported
        /\ ~vercelEnv /\ variant # "api" => listenCalls > 0

\* The path matches no mounted prefix and no fixed endpoint.
Unmatched(path) ==
    /\ path # RootPath /\ path # HealthPath
    /\ \A p \in RoutePrefixes : ~IsPrefix(p, path)

\* A well-formed GET request has been answered.
AnsweredGet == exchange.done /\ exchange.req.method = "GET" /\ exchange.req.bodyOk

\* C5: a GET request to an unmatched path is answered by the 404 handler,
\* with status 404 and the body { message: "Route not found", path }, in
\* every entry point.
C5_UnmatchedIs404 ==
    AnsweredGet /\ Unmatched(exchange.req.path) =>
        /\ exchange.resp.status = 404
        /\ exchange.resp.by = "notFound"
        /\ exchange.resp.bodyMessage = "Route not found"
        /\ exchange.resp.bodyPath = exchange.req.path

\* C6: GET /api/health answers 200 with status "healthy" and GET / answers
\* 200 with status "running", in every entry point, and no route module
\* prefix covers either path.
C6_FixedEndpoints ==
    /\ AnsweredGet /\ exchange.req.path = HealthPath =>
            exchange.resp.status = 200 /\ exchange.resp.bodyStatus = "healthy"
    /\ AnsweredGet /\ exchange.req.path = RootPath =>
            exchange.resp.status = 200 /\ exchange.resp.bodyStatus = "running"
    /\ \A i \in 1..Len(Stack(variant)) :
            Stack(variant)[i].handler = "router" =>
                /\ ~IsPrefix(Stack(variant)[i].path, HealthPath)
                /\ ~IsPrefix(Stack(variant)[i].path, RootPath)

\* An error no route handled has been answered.
AnsweredError == exchange.done /\ exchange.resp.err # NoErr
\* The entry point registers an error handling middleware.
HasErrorMW == \E i \in 1..Len(Stack(variant)) : Stack(variant)[i].arity = 4
\* The response body carries the underlying error message.
CarriesMessage ==
    \/ exchange.resp.bodyError = exchange.resp.err.message
    \/ exchange.resp.bodyMessage = exchange.resp.err.message

\* C7 as stated, for the entry points that register the error middleware:
\* an unhandled error is answered with 500, without the underlying message
\* in production and with it in every other environment.
C7_MessageOutsideProduction ==
    AnsweredError /\ HasErrorMW =>
        /\ exchange.resp.status = 500
        /\ NODE_ENV = "production" => ~CarriesMessage
        /\ NODE_ENV # "production" => CarriesMessage

\* C7 amended: the error middleware answers an unhandled error with 500; in
\* production the body never carries the underlying message (in any entry
\* point); the second server variant carries it exactly when NODE_ENV is
\* 'development' and the generic 'Internal server error' otherwise; the
\* serverless entry point never carries it.
C7_MessageOnlyInDevelopment ==
    AnsweredError =>
        /\ NODE_ENV = "production" => ~CarriesMessage
        /\ HasErrorMW => exchange.resp.status = 500
        /\ variant = "server2" =>
                /\ exchange.resp.by = "errorMW2"
                /\ CarriesMessage <=> NODE_ENV = "development"
                /\ ~CarriesMessage => exchange.resp.bodyError = "Internal server error"
        /\ variant = "api" =>
                /\ exchange.resp.by = "errorMW3"
                /\ ~CarriesMessage
                /\ exchange.resp.bodyMessage = "Internal server error"

\* The second variant answered a route's error with NODE_ENV unset.
C7_Witness ==
    /\ AnsweredError /\ variant = "server2" /\ NODE_ENV = "unset"
    /\ exchange.resp.err.message = "boom"
    /\ exchange.resp.status = 500
    /\ exchange.resp.bodyError = "Internal server error"

\* The declared content type starts with 'image/'.
IsImageType(m) == Len(m) >= 6 /\ \A i \in 1..6 : m[i] = ImagePrefix[i]
\* The extension of a file name: from its last dot on, none when the name
\* has no dot, only a leading dot, or is "..".
ExtensionOf(n) ==
    LET dots == {i \in 1..Len(n) : n[i] = Dot}
        k == IF dots = {} THEN 0 ELSE CHOOSE i \in dots : \A j \in dots : j <= i
    IN  IF k <= 1 \/ n = <<Dot, Dot>> THEN <<>> ELSE SubSeq(n, k, Len(n))
IsDigits(q) == q # <<>> /\ \A i \in 1..Len(q) : \E d \in 1..10 : q[i] = Digits[d]

\* C8: the upload middleware rejects with an error every file whose content
\* type does not start with 'image/'; it accepts every image under the size
\* limit and stores it in the uploads directory as
\* <fieldname>-<timestamp>-<random><ext>, ext being the original extension.
C8_UploadFilterAndName ==
    upload.done /\ upload.file.fieldname # <<>> =>
        LET f == upload.file IN
        /\ ~IsImageType(f.mimetype) =>
                /\ ~upload.accepted
                /\ upload.error = "Only image files are allowed!"
                /\ upload.destination = "none"
        /\ IsImageType(f.mimetype) /\ f.size < fileSize =>
                /\ upload.accepted /\ upload.error = "none"
                /\ upload.destination = "uploads"
                /\ IsDigits(ToDec(upload.now)) /\ IsDigits(ToDec(upload.rnd))
                /\ upload.filename =
                        f.fieldname \o <<"-">> \o ToDec(upload.now) \o <<"-">>
                            \o ToDec(upload.rnd) \o ExtensionOf(f.originalname)

\* An image named "a.b" was stored as f-1-7.b.
C8_Witness ==
    /\ upload.done /\ upload.accepted
    /\ upload.file.originalname = <<"a", Dot, "b">>
    /\ upload.file.size = fileSize - 1
    /\ upload.filename = <<"f", "-", "1", "-", "7", Dot, "b">>

\* The allow-list the environment calls for.
AllowList(env) == IF env = "production" THEN {ProdOrigin} ELSE DevOrigins

\* C9: in every entry point credentials are enabled and cross-origin access
\* is granted only to an origin on the allow-list of the environment (the
\* production origin in production, the local origins otherwise).
C9_CorsAllowList ==
    exchange.done /\ exchange.resp.by # "none" =>
        /\ exchange.acac
        /\ exchange.acao # "none" =>
                /\ exchange.acao = exchange.req.origin
                /\ exchange.req.origin \in AllowList(NODE_ENV)

\* C10: in a self-listening instance an exit with status 0 follows a
\* received signal and the completed close of the listener; every other
\* exit (a listener error, an exception at startup) has status 1.
C10_ExitStatus ==
    pc = "exited" /\ listenCalls > 0 =>
        \/ /\ exitCode = 0
           /\ signals # <<>>
           /\ server = "closed"
           /\ Last(log) = "terminated"
        \/ /\ exitCode = 1
           /\ Last(log) \in {"portconflict", "servererror", "startfail"}

\* The listening server emitted an error and the process exited with 1.
C10_Witness ==
    /\ pc = "exited" /\ exitCode = 1
    /\ server = "listening" /\ Last(log) = "servererror"
====
